---- MODULE Spec2Model ----
(***************************************************************************)
(* BookManager (book_manager.py): CRUD operations over the SQLite table    *)
(* books(id INTEGER PRIMARY KEY AUTOINCREMENT, title TEXT NOT NULL,        *)
(* author TEXT NOT NULL, year INTEGER, isbn TEXT UNIQUE, genre TEXT).      *)
(*                                                                         *)
(* Spec      one caller, one connection: every public method is one step.  *)
(*           One call of the run is recorded with the state it was made    *)
(*           in, so that its outcome can be compared with that state.      *)
(* SpecConc  the table is filled through one connection, which stays open; *)
(*           then two callers, each with its own connection to the same    *)
(*           database file, run one update_book each, whose SELECT, UPDATE *)
(*           and commit are separate steps.                                *)
(***************************************************************************)
EXTENDS Integers, Sequences, FiniteSets, TLC

\* At most MaxId rows are ever inserted.
MaxId == 2

\* SpecConc: each concurrent update_book supplies at most MaxSupplied fields.
MaxSupplied == 2

\* Python None / SQL NULL is the empty tuple, a present value v is <<v>>.
None == <<>>
Some(v) == <<v>>
Opt(S) == {None} \cup {Some(v) : v \in S}

\* Input domains of the callers.
Titles == {"T"}
Authors == {"A"}
Years == {0}
Isbns == {"i", "j"}
Genres == {"G"}
Terms == {"", "t", "A", "z", "_", "%"}
GenreArgs == {"G", "g"}
Ids == 1..(MaxId + 1)
Callers == {1, 2}
\* SpecConc: the connection the table is filled through, and all connections.
Filler == 0
Conns == Callers \cup {Filler}

Fields == {"title", "author", "year", "isbn", "genre"}

\* The five optional arguments of add_book / update_book.
ArgSets == [title : Opt(Titles), author : Opt(Authors), year : Opt(Years),
            isbn : Opt(Isbns), genre : Opt(Genres)]

NoArgs == [title |-> None, author |-> None, year |-> None, isbn |-> None,
           genre |-> None]

\* SpecConc: the books the table is filled with, and the arguments of the
\* two concurrent update_book calls.
ConcBooks == [title : {Some("T")}, author : {Some("A")}, year : {None},
              isbn : {None, Some("i")}, genre : {None}]

ConcArgs ==
    {a \in [title : {None, Some("U")}, author : {None, Some("B")},
            year : {None, Some(0)}, isbn : {None, Some("i")},
            genre : {None}] :
        Cardinality({f \in Fields : a[f] # None}) <= MaxSupplied}

VARIABLES
    rows,     \* the books table: id -> [title, author, year, isbn, genre]
    seq,      \* sqlite_sequence.seq of books: the largest id ever assigned
    conn,     \* the state of self.conn: "open" or "closed"
    returned, \* the ids returned by the successful add_book calls, in order
    last,     \* the call under observation: method, arguments, outcome
    pre,      \* the table and connection as they were before that call
    pc,       \* SpecConc: where each caller is in its update_book
    req,      \* SpecConc: each caller's update_book arguments
    cur,      \* SpecConc: each caller's current_book (None or <<row>>)
    out,      \* SpecConc: each caller's outcome
    intxn,    \* SpecConc: each connection's in_transaction flag
    lock,     \* SpecConc: the connection holding the database's write lock
    pend,     \* SpecConc: each caller's executed, uncommitted UPDATE
    log       \* SpecConc: the order of the SELECT, UPDATE and commit steps

vars == <<rows, seq, conn, returned, last, pre, pc, req, cur, out, intxn,
          lock, pend, log>>

----------------------------------------------------------------------------
(* The schema's constraints *)

\* title TEXT NOT NULL, author TEXT NOT NULL
NotNullViolation(title, author) == title = None \/ author = None

\* A schema without the UNIQUE keyword on isbn.
UniqueViolationNever(table, isbn, self) == FALSE

\* Uniqueness enforced on INSERT only.
UniqueViolationInsertOnly(table, isbn, self) ==
    /\ self = 0
    /\ isbn # None
    /\ \E i \in DOMAIN table : table[i].isbn = isbn

\* Uniqueness that counts the updated row itself as a holder of its isbn.
UniqueViolationSelf(table, isbn, self) ==
    /\ isbn # None
    /\ \E i \in DOMAIN table : table[i].isbn = isbn

\* isbn TEXT UNIQUE: a non-null isbn held by a row other than `self`
\* (self = 0 for an INSERT). NULLs never collide.
UniqueViolation(table, isbn, self) ==
    /\ isbn # None
    /\ \E i \in DOMAIN table : i # self /\ table[i].isbn = isbn

Max(S) == IF S = {} THEN 0 ELSE CHOOSE m \in S : \A x \in S : x <= m

\* INTEGER PRIMARY KEY without AUTOINCREMENT: one more than the largest
\* rowid now in the table.
NextRowidMaxPlusOne(table, counter) == Max(DOMAIN table) + 1

\* id INTEGER PRIMARY KEY AUTOINCREMENT: one more than the largest rowid the
\* table has ever held.
NextRowid(table, counter) == Max(DOMAIN table \cup {counter}) + 1

\* sqlite3 raises ProgrammingError("Cannot operate on a closed database.")
\* from cursor.execute on a closed connection.
CannotOperate(c) == c = "closed"

\* close() with its guard inverted: the connection is never closed.
close_skip(c) == c

\* close(): if self.conn: self.conn.close()
close(c) == IF c \in {"open", "closed"} THEN "closed" ELSE c

----------------------------------------------------------------------------
(* Table helpers *)

Put(table, id, book) ==
    [i \in DOMAIN table \cup {id} |-> IF i = id THEN book ELSE table[i]]

\* A fetched row: (id, title, author, year, isbn, genre). Python's book[k]
\* is element k + 1 here.
Tuple(table, id) ==
    <<id, table[id].title, table[id].author, table[id].year, table[id].isbn,
      table[id].genre>>

\* What a method does: the table, counter and connection it leaves, and its
\* return value (None when it raised) or the exception it raised.
Result(table, counter, c, ret, raised) ==
    [rows |-> table, seq |-> counter, conn |-> c, ret |-> ret,
     raised |-> raised]

Raise(table, counter, c) ==
    Result(table, counter, c, None, "ProgrammingError")

----------------------------------------------------------------------------
(* The methods of BookManager *)

add_book(table, counter, c, a) ==
    IF CannotOperate(c) THEN Raise(table, counter, c)
    ELSE IF NotNullViolation(a.title, a.author)
            \/ UniqueViolation(table, a.isbn, 0)
    THEN \* except sqlite3.IntegrityError: return -1
         Result(table, counter, c, Some(-1), "")
    ELSE LET id == NextRowid(table, counter) IN
         \* commit; return self.cursor.lastrowid
         Result(Put(table, id, a), id, c, Some(id), "")

\* SELECT * FROM books WHERE id = ?; fetchone()
get_book_by_id(table, book_id) ==
    IF book_id \in DOMAIN table THEN Some(Tuple(table, book_id)) ELSE None

\* update_book with every argument written as given.
MergeOverwrite(new, current) == new

\* update_book with every argument ignored.
MergeIgnore(new, current) == current

\* new_x = x if x is not None else current_book[k]
Merge(new, current) == IF new # None THEN new ELSE current

\* update_book's UPDATE statement re-reading the row inside the statement's
\* transaction instead of using the row fetched earlier.
BaseRowReread(table, book_id, current_book) ==
    IF book_id \in DOMAIN table THEN Tuple(table, book_id) ELSE current_book

\* The row update_book merges the arguments into: the one it fetched.
BaseRow(table, book_id, current_book) == current_book

\* Lines 134-151 of update_book: merge the arguments into current_book and
\* write all five columns back.
update_write(table, counter, c, book_id, current_book, a) ==
    LET base == BaseRow(table, book_id, current_book)
        new == [title  |-> Merge(a.title, base[2]),
                author |-> Merge(a.author, base[3]),
                year   |-> Merge(a.year, base[4]),
                isbn   |-> Merge(a.isbn, base[5]),
                genre  |-> Merge(a.genre, base[6])]
    IN  IF book_id \notin DOMAIN table
        THEN \* no row matches WHERE id = ?: rowcount = 0
             Result(table, counter, c, Some(FALSE), "")
        ELSE IF NotNullViolation(new.title, new.author)
                \/ UniqueViolation(table, new.isbn, book_id)
        THEN \* except sqlite3.IntegrityError: return False
             Result(table, counter, c, Some(FALSE), "")
        ELSE \* commit; return self.cursor.rowcount > 0
             Result(Put(table, book_id, new), counter, c, Some(TRUE), "")

\* update_book without the "if not current_book" guard: subscripting None
\* raises TypeError.
update_book_unguarded(table, counter, c, book_id, a) ==
    IF CannotOperate(c) THEN Raise(table, counter, c)
    ELSE LET current_book == get_book_by_id(table, book_id) IN
         IF current_book = None
         THEN Result(table, counter, c, None, "TypeError")
         ELSE update_write(table, counter, c, book_id, current_book[1], a)

update_book(table, counter, c, book_id, a) ==
    IF CannotOperate(c) THEN Raise(table, counter, c)
    ELSE LET current_book == get_book_by_id(table, book_id) IN
         IF current_book = None
         THEN Result(table, counter, c, Some(FALSE), "")
         ELSE update_write(table, counter, c, book_id, current_book[1], a)

\* DELETE with no WHERE clause.
RemoveAll(table, id) == <<>>

\* DELETE FROM books WHERE id = ?
Remove(table, id) == [i \in DOMAIN table \ {id} |-> table[i]]

delete_book(table, counter, c, book_id) ==
    IF CannotOperate(c) THEN Raise(table, counter, c)
    ELSE Result(Remove(table, book_id), counter, c,
                Some(book_id \in DOMAIN table), "")

\* The characters of the texts the callers use: each is empty or one
\* character long.
Chars(s) == IF s = "" THEN <<>> ELSE <<s>>

\* SQLite's LIKE folds the case of ASCII letters.
Fold(ch) == CASE ch = "t" -> "T" [] ch = "a" -> "A" [] ch = "g" -> "G"
              [] OTHER -> ch

\* text LIKE pattern: % matches any run of characters, _ any one character.
RECURSIVE Like(_, _)
Like(pat, txt) ==
    IF pat = <<>> THEN txt = <<>>
    ELSE IF Head(pat) = "%"
    THEN Like(Tail(pat), txt) \/ (txt # <<>> /\ Like(pat, Tail(txt)))
    ELSE /\ txt # <<>>
         /\ Head(pat) = "_" \/ Fold(Head(pat)) = Fold(Head(txt))
         /\ Like(Tail(pat), Tail(txt))

\* The byte order of the characters (BINARY collation compares bytes).
Byte(ch) == CASE ch = "%" -> 37 [] ch = "A" -> 65 [] ch = "G" -> 71
              [] ch = "T" -> 84 [] ch = "_" -> 95 [] ch = "a" -> 97
              [] ch = "g" -> 103 [] ch = "t" -> 116 [] OTHER -> 122

RECURSIVE TextLess(_, _)
TextLess(x, y) ==
    IF y = <<>> THEN FALSE
    ELSE IF x = <<>> THEN TRUE
    ELSE IF Head(x) = Head(y) THEN TextLess(Tail(x), Tail(y))
    ELSE Byte(Head(x)) < Byte(Head(y))

\* ORDER BY title: rows with equal titles come out in rowid order.
RowBefore(table, i, j) ==
    \/ TextLess(Chars(table[i].title[1]), Chars(table[j].title[1]))
    \/ table[i].title = table[j].title /\ i < j

RECURSIVE OrderByTitle(_, _)
OrderByTitle(table, S) ==
    IF S = {} THEN <<>>
    ELSE LET first == CHOOSE i \in S :
                          \A j \in S \ {i} : RowBefore(table, i, j)
         IN  <<Tuple(table, first)>> \o OrderByTitle(table, S \ {first})

\* SELECT * FROM books ORDER BY title
get_all_books(table, counter, c) ==
    IF CannotOperate(c) THEN Raise(table, counter, c)
    ELSE Result(table, counter, c,
                Some(OrderByTitle(table, DOMAIN table)), "")

\* get_book_by_id as a call of its own.
get_book(table, counter, c, book_id) ==
    IF CannotOperate(c) THEN Raise(table, counter, c)
    ELSE Result(table, counter, c, Some(get_book_by_id(table, book_id)), "")

\* WHERE title LIKE '%term%' OR author LIKE '%term%' ORDER BY title
search_books(table, counter, c, term) ==
    IF CannotOperate(c) THEN Raise(table, counter, c)
    ELSE LET search_pattern == <<"%">> \o Chars(term) \o <<"%">>
             hits == {i \in DOMAIN table :
                         \/ Like(search_pattern, Chars(table[i].title[1]))
                         \/ Like(search_pattern, Chars(table[i].author[1]))}
         IN  Result(table, counter, c, Some(OrderByTitle(table, hits)), "")

\* WHERE genre = ? ORDER BY title
get_books_by_genre(table, counter, c, genre) ==
    IF CannotOperate(c) THEN Raise(table, counter, c)
    ELSE LET hits == {i \in DOMAIN table : table[i].genre = Some(genre)}
         IN  Result(table, counter, c, Some(OrderByTitle(table, hits)), "")

\* close(), also what __exit__ does.
close_book(table, counter, c) == Result(table, counter, close(c), None, "")

----------------------------------------------------------------------------
(* The run: any sequence of calls. One call of the run is put under        *)
(* observation: its arguments and outcome are kept in `last`, the state it *)
(* was made in is kept in `pre`, and the run is followed no further.       *)

Call(op, id, a, term, ret, raised) ==
    [op |-> op, book_id |-> id, args |-> a, term |-> term, ret |-> ret,
     raised |-> raised]

NoCall == Call("none", 0, NoArgs, "", None, "")

done == last.op # "none"

Inserted(op, r) == op = "add_book" /\ r.raised = "" /\ r.ret # Some(-1)

\* The effect of a call on the store.
Effect(op, r) ==
    /\ ~done
    /\ \A p \in Callers : pc[p] = "idle"
    /\ Inserted(op, r) => Len(returned) < MaxId
    /\ rows' = r.rows
    /\ seq' = r.seq
    /\ conn' = r.conn
    /\ returned' = IF Inserted(op, r) THEN Append(returned, r.ret[1])
                   ELSE returned
    /\ UNCHANGED <<pc, req, cur, out, pend, log>>

\* With one connection an open transaction changes no outcome: Spec does not
\* follow it.
Step(op, id, a, term, r) ==
    /\ Effect(op, r)
    /\ UNCHANGED <<intxn, lock>>
    /\ \/ UNCHANGED <<last, pre>>
       \/ /\ last' = Call(op, id, a, term, r.ret, r.raised)
          /\ pre' = [rows |-> rows, conn |-> conn]

AddBook == \E a \in ArgSets :
    Step("add_book", 0, a, "", add_book(rows, seq, conn, a))

UpdateBook == \E id \in Ids, a \in ArgSets :
    Step("update_book", id, a, "", update_book(rows, seq, conn, id, a))

DeleteBook == \E id \in Ids :
    Step("delete_book", id, NoArgs, "", delete_book(rows, seq, conn, id))

GetAllBooks ==
    Step("get_all_books", 0, NoArgs, "", get_all_books(rows, seq, conn))

GetBookById == \E id \in Ids :
    Step("get_book_by_id", id, NoArgs, "", get_book(rows, seq, conn, id))

SearchBooks == \E term \in Terms :
    Step("search_books", 0, NoArgs, term,
         search_books(rows, seq, conn, term))

GetBooksByGenre == \E genre \in GenreArgs :
    Step("get_books_by_genre", 0, NoArgs, genre,
         get_books_by_genre(rows, seq, conn, genre))

Close == Step("close", 0, NoArgs, "", close_book(rows, seq, conn))

\* Leaving the with-block: __exit__ calls close().
Exit == Step("__exit__", 0, NoArgs, "", close_book(rows, seq, conn))

Init ==
    /\ rows = <<>>
    /\ seq = 0
    /\ conn = "open"
    /\ returned = <<>>
    /\ last = NoCall
    /\ pre = [rows |-> <<>>, conn |-> "open"]
    /\ pc = [p \in Callers |-> "idle"]
    /\ req = [p \in Callers |-> [book_id |-> 0, args |-> NoArgs]]
    /\ cur = [p \in Callers |-> None]
    /\ out = [p \in Callers |-> ""]
    /\ intxn = [c \in Conns |-> FALSE]
    /\ lock = {}
    /\ pend = [p \in Callers |-> None]
    /\ log = <<>>

Next ==
    \/ AddBook
    \/ UpdateBook
    \/ DeleteBook
    \/ GetAllBooks
    \/ GetBookById
    \/ SearchBooks
    \/ GetBooksByGenre
    \/ Close
    \/ Exit

Spec == Init /\ [][Next]_vars

----------------------------------------------------------------------------
(* Two callers, each with its own BookManager on the same database file.   *)
(* The table is filled first, through a third BookManager that stays open; *)
(* then each caller makes one update_book call. Its SELECT (line 130), the *)
(* begin of its transaction and its UPDATE (both inside cursor.execute,    *)
(* lines 142-146) and its commit (line 147) are separate steps.            *)
(*                                                                         *)
(* sqlite3 begins a transaction before an INSERT or UPDATE, and the        *)
(* statement takes the database's write lock. commit ends the transaction  *)
(* and makes the change visible to the other connections; the              *)
(* IntegrityError paths (lines 67-69, 149-151) do not commit, so the       *)
(* transaction and the lock stay. A write while another connection holds   *)
(* the lock waits, and after the busy timeout raises                       *)
(* sqlite3.OperationalError (database is locked), which is not caught.     *)

\* add_book on the filling connection, before the callers start.
ConcAdd == \E a \in ConcBooks :
    LET r == add_book(rows, seq, conn, a) IN
    /\ Effect("add_book", r)
    /\ IF r.raised # "" THEN UNCHANGED <<intxn, lock>>
       ELSE IF r.ret = Some(-1)
       THEN \* IntegrityError: return -1 without commit or rollback
            /\ intxn' = [intxn EXCEPT ![Filler] = TRUE]
            /\ lock' = {Filler}
       ELSE \* commit
            /\ intxn' = [intxn EXCEPT ![Filler] = FALSE]
            /\ lock' = {}
    /\ UNCHANGED <<last, pre>>

\* Lines 130-132: current_book = self.get_book_by_id(book_id); return False
\* if there is none. The SELECT sees the committed table.
UpdateRead(p) == \E id \in Ids, a \in ConcArgs :
    /\ pc[p] = "idle"
    /\ req' = [req EXCEPT ![p] = [book_id |-> id, args |-> a]]
    /\ cur' = [cur EXCEPT ![p] = get_book_by_id(rows, id)]
    /\ IF get_book_by_id(rows, id) = None
       THEN /\ pc' = [pc EXCEPT ![p] = "returned"]
            /\ out' = [out EXCEPT ![p] = "False"]
       ELSE /\ pc' = [pc EXCEPT ![p] = "fetched"]
            /\ out' = out
    /\ log' = Append(log, <<p, "select">>)
    /\ UNCHANGED <<rows, seq, conn, returned, last, pre, intxn, lock, pend>>

\* Line 142, first half: cursor.execute begins the connection's transaction
\* before it runs the UPDATE. Beginning takes no lock; the caller is then
\* inside cursor.execute, in a transaction, with the UPDATE still to run, and
\* the other connections' steps may come in between.
UpdateBegin(p) ==
    /\ pc[p] = "fetched"
    /\ ~intxn[p]
    /\ intxn' = [intxn EXCEPT ![p] = TRUE]
    /\ UNCHANGED <<rows, seq, conn, returned, last, pre, pc, req, cur, out,
                   lock, pend, log>>

\* Lines 134-146, second half: the UPDATE itself. Taken while another
\* connection holds the write lock, the step is the busy timeout expiring;
\* a caller that waits the lock out takes the step after it is released.
UpdateExecute(p) ==
    /\ pc[p] = "fetched"
    /\ intxn[p]
    /\ LET id == req[p].book_id
           r == update_write(rows, seq, "open", id, cur[p][1], req[p].args)
       IN  IF lock \ {p} # {}
           THEN \* sqlite3.OperationalError: database is locked
                /\ out' = [out EXCEPT ![p] = "OperationalError"]
                /\ pc' = [pc EXCEPT ![p] = "returned"]
                /\ UNCHANGED <<lock, pend>>
           ELSE IF r.ret = Some(FALSE) /\ id \in DOMAIN rows
           THEN \* except sqlite3.IntegrityError: return False
                /\ out' = [out EXCEPT ![p] = "False"]
                /\ pc' = [pc EXCEPT ![p] = "returned"]
                /\ lock' = {p}
                /\ pend' = pend
           ELSE /\ out' = out
                /\ pc' = [pc EXCEPT ![p] = "executed"]
                /\ lock' = {p}
                /\ pend' = [pend EXCEPT ![p] = Some(r)]
    /\ log' = Append(log, <<p, "update">>)
    /\ UNCHANGED <<rows, seq, conn, returned, last, pre, req, cur, intxn>>

\* Lines 147-148: self.conn.commit(); return self.cursor.rowcount > 0
UpdateCommit(p) ==
    /\ pc[p] = "executed"
    /\ rows' = pend[p][1].rows
    /\ out' = [out EXCEPT ![p] =
                  IF pend[p][1].ret = Some(TRUE) THEN "True" ELSE "False"]
    /\ pc' = [pc EXCEPT ![p] = "returned"]
    /\ pend' = [pend EXCEPT ![p] = None]
    /\ intxn' = [intxn EXCEPT ![p] = FALSE]
    /\ lock' = {}
    /\ log' = Append(log, <<p, "commit">>)
    /\ UNCHANGED <<seq, conn, returned, last, pre, req, cur>>

NextConc ==
    \/ ConcAdd
    \/ \E p \in Callers : UpdateRead(p)
    \/ \E p \in Callers : UpdateBegin(p)
    \/ \E p \in Callers : UpdateExecute(p)
    \/ \E p \in Callers : UpdateCommit(p)

SpecConc == Init /\ [][NextConc]_vars

----------------------------------------------------------------------------
(* Properties of the single-caller run (Spec) *)

Observed(op) == last.op = op /\ pre.conn = "open"

\* C1: in every reachable state no two distinct rows hold the same non-null
\* isbn (any number of rows may hold a null isbn).
C1_IsbnUnique ==
    \A i \in DOMAIN rows : \A j \in DOMAIN rows :
        (i # j /\ rows[i].isbn # None) => rows[i].isbn # rows[j].isbn

\* Two rows with different isbns, the second isbn set by a successful update.
C1_Witness ==
    /\ Observed("update_book")
    /\ last.ret = Some(TRUE)
    /\ last.args.isbn # None
    /\ pre.rows[last.book_id].isbn # last.args.isbn
    /\ \E j \in DOMAIN rows : j # last.book_id /\ rows[j].isbn # None

\* C2: add_book with a non-null isbn that a row already holds returns -1,
\* inserts nothing and leaves the table as it was; -1 is none of the ids the
\* successful adds returned.
C2_AddDuplicateIsbn ==
    /\ (/\ Observed("add_book")
        /\ last.args.isbn # None
        /\ \E i \in DOMAIN pre.rows : pre.rows[i].isbn = last.args.isbn)
       => (last.raised = "" /\ last.ret = Some(-1) /\ rows = pre.rows)
    /\ \A k \in 1..Len(returned) : returned[k] # -1

\* A rejected add of an otherwise valid book whose isbn is taken.
C2_Witness ==
    /\ Observed("add_book")
    /\ last.args.title # None /\ last.args.author # None
    /\ last.args.isbn # None
    /\ \E i \in DOMAIN pre.rows : pre.rows[i].isbn = last.args.isbn
    /\ last.ret = Some(-1)
    /\ Len(returned) >= 1

\* C3: every successful add_book returns a positive id greater than every id
\* an earlier add_book returned, whatever failed adds and deletes came
\* between; the observed add's return value is the newest of them.
C3_IdsIncrease ==
    /\ \A k \in 1..Len(returned) :
          /\ returned[k] > 0
          /\ \A j \in 1..(k - 1) : returned[j] < returned[k]
    /\ (Observed("add_book") /\ last.ret # Some(-1))
       => (/\ Len(returned) >= 1
           /\ last.ret = Some(returned[Len(returned)])
           /\ last.ret[1] \notin DOMAIN pre.rows)

\* An add into a table emptied by deleting the row with the highest id.
C3_Witness ==
    /\ Observed("add_book")
    /\ last.ret # Some(-1)
    /\ DOMAIN pre.rows = {}
    /\ Len(returned) = 2

Supplied(f) == last.args[f] # None

\* C4: after a successful update_book the row holds, field by field, the
\* argument if one was given and its earlier value otherwise; the row keeps
\* its id and every other row is as it was.
C4_UpdateMerges ==
    (Observed("update_book") /\ last.ret = Some(TRUE))
    => /\ last.book_id \in DOMAIN pre.rows
       /\ DOMAIN rows = DOMAIN pre.rows
       /\ \A f \in Fields :
             rows[last.book_id][f] =
                 IF Supplied(f) THEN last.args[f]
                 ELSE pre.rows[last.book_id][f]
       /\ \A j \in DOMAIN pre.rows \ {last.book_id} : rows[j] = pre.rows[j]

\* An update that changes one field, keeps another non-null one, and leaves
\* a second row alone.
C4_Witness ==
    /\ Observed("update_book")
    /\ last.ret = Some(TRUE)
    /\ \E f \in Fields :
          Supplied(f) /\ pre.rows[last.book_id][f] # last.args[f]
    /\ \E f \in Fields :
          ~Supplied(f) /\ pre.rows[last.book_id][f] # None
    /\ DOMAIN pre.rows # {last.book_id}

MergedIsbn ==
    IF Supplied("isbn") THEN last.args.isbn
    ELSE pre.rows[last.book_id].isbn

HeldByOther(isbn) ==
    \E j \in DOMAIN pre.rows \ {last.book_id} : pre.rows[j].isbn = isbn

\* C5: update_book whose merged isbn is the non-null isbn of another row
\* returns False and changes nothing; an update whose merged isbn is only
\* the row's own isbn is carried out.
C5_UpdateIsbnCollision ==
    (Observed("update_book") /\ last.book_id \in DOMAIN pre.rows
        /\ MergedIsbn # None)
    => /\ HeldByOther(MergedIsbn)
          => (last.raised = "" /\ last.ret = Some(FALSE) /\ rows = pre.rows)
       /\ (MergedIsbn = pre.rows[last.book_id].isbn
             /\ ~HeldByOther(MergedIsbn))
          => last.ret = Some(TRUE)

\* A rejected update that also supplied a new value for another field.
C5_Witness ==
    /\ Observed("update_book")
    /\ last.book_id \in DOMAIN pre.rows
    /\ Supplied("isbn")
    /\ HeldByOther(last.args.isbn)
    /\ \E f \in Fields \ {"isbn"} :
          Supplied(f) /\ pre.rows[last.book_id][f] # last.args[f]
    /\ last.ret = Some(FALSE)

\* C6: update_book of an id that has no row returns False whatever the
\* arguments, and the table is as it was.
C6_UpdateNotFound ==
    (Observed("update_book") /\ last.book_id \notin DOMAIN pre.rows)
    => (last.raised = "" /\ last.ret = Some(FALSE) /\ rows = pre.rows)

\* An update of a missing id, with arguments, on a table that has rows.
C6_Witness ==
    /\ Observed("update_book")
    /\ last.book_id \notin DOMAIN pre.rows
    /\ DOMAIN pre.rows # {}
    /\ Supplied("isbn") /\ Supplied("year")
    /\ last.ret = Some(FALSE)

\* C7: delete_book returns True exactly when the id had a row; afterwards
\* the id has no row and every other row is as it was.
C7_Delete ==
    Observed("delete_book")
    => /\ last.ret = Some(last.book_id \in DOMAIN pre.rows)
       /\ get_book_by_id(rows, last.book_id) = None
       /\ DOMAIN rows = DOMAIN pre.rows \ {last.book_id}
       /\ \A j \in DOMAIN rows : rows[j] = pre.rows[j]

\* A successful delete from a table with two rows.
C7_Witness ==
    /\ Observed("delete_book")
    /\ last.ret = Some(TRUE)
    /\ Cardinality(DOMAIN pre.rows) = 2
    /\ Cardinality(DOMAIN rows) = 1

\* C8: close() (or leaving the with-block) closes the store for good: every
\* later call of another method raises instead of returning, no call changes
\* the rows, and the store stays closed.
C8_ClosedIsTerminal ==
    /\ last.op \in {"close", "__exit__"} => conn = "closed"
    /\ (last.op # "none" /\ pre.conn = "closed")
       => /\ conn = "closed"
          /\ rows = pre.rows
          /\ last.op \notin {"close", "__exit__"}
             => (last.raised = "ProgrammingError" /\ last.ret = None)

\* An update on a closed store that still holds rows.
C8_Witness ==
    /\ last.op = "update_book"
    /\ pre.conn = "closed"
    /\ last.book_id \in DOMAIN rows
    /\ last.args.year # None
    /\ last.raised = "ProgrammingError"

Nullable == {"year", "isbn", "genre"}

\* C10: title and author are non-null in every row of every reachable state,
\* and no step sets a non-null year, isbn or genre of a row back to null
\* while the row exists.
C10_NeverBackToNull ==
    /\ [](\A i \in DOMAIN rows :
             rows[i].title # None /\ rows[i].author # None)
    /\ [][\A i \in DOMAIN rows \cap DOMAIN rows' : \A f \in Nullable :
             rows[i][f] # None => rows'[i][f] # None]_vars

\* A successful update that omitted the year of a row that has one and
\* supplied something else.
C10_Witness ==
    /\ Observed("update_book")
    /\ last.ret = Some(TRUE)
    /\ ~Supplied("year") /\ pre.rows[last.book_id].year # None
    /\ ~Supplied("isbn") /\ pre.rows[last.book_id].isbn # None
    /\ Supplied("genre")
    /\ rows[last.book_id].year # None

----------------------------------------------------------------------------
(* Properties of the two-caller run (SpecConc) *)

\* The column of a fetched row.
Column(t, f) ==
    CASE f = "title" -> t[2] [] f = "author" -> t[3] [] f = "year" -> t[4]
      [] f = "isbn" -> t[5] [] f = "genre" -> t[6]

BothSucceeded(p, q) ==
    /\ p # q
    /\ pc[p] = "returned" /\ pc[q] = "returned"
    /\ req[p].book_id = req[q].book_id
    /\ out[p] = "True" /\ out[q] = "True"

\* The place of a step in the run.
At(p, step) == CHOOSE i \in 1..Len(log) : log[i] = <<p, step>>

\* p wrote first, and q had read the row before p's write was committed.
Interleaved(p, q) ==
    /\ BothSucceeded(p, q)
    /\ At(p, "commit") < At(q, "commit")
    /\ At(q, "select") < At(p, "commit")

\* p's whole update ran before q's.
OneAfterTheOther(p, q) ==
    /\ BothSucceeded(p, q)
    /\ At(p, "commit") < At(q, "select")

\* C9: when two update_book calls on one id both read the row before either
\* write is committed, every field the first writer set and the second did
\* not supply ends with the value it had before both (the first writer's
\* change is lost); when the first call finishes before the second starts,
\* the row ends with the second's fields, the first's where the second gave
\* none, and the old values elsewhere.
C9_LostUpdate ==
    \A p \in Callers : \A q \in Callers :
        LET id == req[p].book_id
            A == req[p].args
            B == req[q].args
        IN  /\ Interleaved(p, q) =>
                \A f \in Fields :
                    rows[id][f] = IF B[f] # None THEN B[f]
                                  ELSE Column(cur[q][1], f)
            /\ Interleaved(p, q) => cur[p] = cur[q]
            /\ OneAfterTheOther(p, q) =>
                \A f \in Fields :
                    rows[id][f] = IF B[f] # None THEN B[f]
                                  ELSE IF A[f] # None THEN A[f]
                                  ELSE Column(cur[p][1], f)

\* A lost update: both callers read the row before either UPDATE; caller 1
\* wrote a new title, caller 2 then wrote a year, and the row has the old
\* title again.
C9_Witness ==
    /\ Interleaved(1, 2)
    /\ At(2, "select") < At(1, "update")
    /\ At(1, "select") < At(2, "update")
    /\ req[1].args.title # None
    /\ req[2].args.title = None /\ req[2].args.year # None
    /\ Column(cur[1][1], "title") # req[1].args.title
    /\ rows[req[1].book_id].title = Column(cur[1][1], "title")
    /\ rows[req[1].book_id].year = req[2].args.year

====
